---------------------------- MODULE Spec2Model ----------------------------
(***************************************************************************)
(* A model of protsupport's structured transformer                        *)
(* (protsupport/modules/protein_transformer.py) and of its geometry       *)
(* utilities (protsupport/utils/geometry.py).                              *)
(*                                                                         *)
(* The program is a set of pure tensor functions.  Every function is an   *)
(* operator computed the way the code computes it; every specification    *)
(* draws the arguments of one function from a bounded set in its initial  *)
(* state and applies the function in its actions.                          *)
(*                                                                         *)
(*   pc    position of the call under study                                *)
(*   args  the arguments (and constructor parameters) of the call          *)
(*   out   the value computed so far / the returned value                  *)
(*   idx   the loop index of StructuredTransformerEncoder.forward          *)
(*   calls the submodule calls made so far, in order                       *)
(***************************************************************************)
EXTENDS Integers, Sequences, FiniteSets, TLC

VARIABLES pc, args, out, idx, calls

vars == <<pc, args, out, idx, calls>>

(***************************************************************************)
(* Bounds of the model.                                                    *)
(***************************************************************************)
\* number of sequence positions (residues) of a feature tensor
SeqLen == 2
\* largest `depth` of an encoder stack
MaxDepth == 2
\* largest number of residues of a protein handed to ProteinTransformer
MaxResidues == 3
\* largest number `mix` of mixture components
MaxMix == 2
\* largest batch of matrices handed to matrix_to_quaternion
MaxBatch == 2
\* largest number of points y handed to relative_orientation
MaxPairs == 2
\* largest number N of positions handed to orientation
MaxPositions == 4

Pos == 1..SeqLen

(***************************************************************************)
(* Feature tensors: a tensor of shape (N, size) is a sequence of N rows.   *)
(* Rows have two features, which is the least size for which LayerNorm is  *)
(* not constant.                                                           *)
(***************************************************************************)
Rows == {<<0, 0>>, <<1, -1>>, <<2, 1>>}

Features == [Pos -> Rows]

\* A structure gives every position the positions it attends to.
StructuresOf(n) ==
  { [i \in 1..n |-> {i}],
    [i \in 1..n |-> 1..n],
    [i \in 1..n |-> {j \in 1..n : j < i}] }

Structures == StructuresOf(SeqLen)

RowAdd(a, b) == [c \in DOMAIN a |-> a[c] + b[c]]

RowScale(k, a) == [c \in DOMAIN a |-> k * a[c]]

ZeroRow(a) == [c \in DOMAIN a |-> 0]

\* x + y on tensors of the same shape
TAdd(x, y) == [i \in DOMAIN x |-> RowAdd(x[i], y[i])]

RECURSIVE RowSum(_, _, _)
RowSum(k, S, zero) ==
  IF S = {} THEN zero
  ELSE LET j == CHOOSE j \in S : TRUE
       IN  RowAdd(k[j], RowSum(k, S \ {j}, zero))

Sgn(n) == IF n > 0 THEN 1 ELSE IF n < 0 THEN -1 ELSE 0

Relu(n) == IF n > 0 THEN n ELSE 0

(***************************************************************************)
(* nn.LayerNorm(size) with its initial weight 1 and bias 0, on rows of two *)
(* features: (a, b) has mean (a+b)/2 and deviations +-(a-b)/2, so the      *)
(* normalised row is (sgn(a-b), sgn(b-a)), up to the 1e-5 regulariser.     *)
(***************************************************************************)
LayerNorm(x) ==
  [i \in DOMAIN x |-> <<Sgn(x[i][1] - x[i][2]), Sgn(x[i][2] - x[i][1])>>]

(***************************************************************************)
(* The learned sublayers.  Their code (attention_connected, MLP) is not    *)
(* part of the sources; each is a function of its arguments and of its     *)
(* weights, taken from a small family.                                     *)
(***************************************************************************)
AttentionWeights == [q : {0, 1}, k : {0, 1}]

LocalWeights == [w : {0, 1, -1}, b : {0, 1}]

\* self.attention(query, key, structure)
Attention(w, query, key, structure) ==
  [i \in DOMAIN query |->
     RowAdd(RowScale(w.q, query[i]),
            RowScale(w.k, RowSum(key, structure[i], ZeroRow(query[i]))))]

\* self.local(x): a position-wise MLP
Local(w, x) ==
  [i \in DOMAIN x |-> [c \in DOMAIN x[i] |-> w.w * Relu(x[i][c] + w.b)]]

(***************************************************************************)
(* self.dropout.  <<>> is the identity (dropout=None, or evaluation mode). *)
(* Otherwise the module draws a keep mask per call; a pair of masks fixes  *)
(* the draws of the two calls of one forward pass.  Kept entries are       *)
(* scaled by 1 / (1 - p), here 2 (dropout = 0.5).                          *)
(***************************************************************************)
Masks == {<<1, 1>>, <<0, 1>>}

Dropouts == {<<>>} \cup (Masks \X Masks)

Dropout(masks, call, x) ==
  IF masks = <<>> THEN x
  ELSE [i \in DOMAIN x |-> [c \in DOMAIN x[i] |-> 2 * masks[call][c] * x[i][c]]]

(***************************************************************************)
(* StructuredTransformerEncoderBlock                                       *)
(***************************************************************************)
Blocks ==
  [pre_norm : BOOLEAN, batch_norm : BOOLEAN,
   attention : AttentionWeights, local : LocalWeights, dropout : Dropouts]

\* self.bn as __init__ sets it
BnAlways(blk, x) == LayerNorm(x)

Bn(blk, x) == IF blk.batch_norm THEN LayerNorm(x) ELSE x

\* self.local_bn as __init__ sets it
LocalBn(blk, x) == IF blk.batch_norm THEN LayerNorm(x) ELSE x

\* a forward that runs the MLP sublayer before the attention sublayer
BlockForwardSwapped(blk, features, structure) ==
  IF blk.pre_norm
  THEN LET o1 == TAdd(features,
                      Dropout(blk.dropout, 1, Local(blk.local, LocalBn(blk, features))))
           normed == Bn(blk, o1)
       IN  TAdd(o1, Dropout(blk.dropout, 2,
                            Attention(blk.attention, normed, normed, structure)))
  ELSE LET o1 == LocalBn(blk, TAdd(features,
                      Dropout(blk.dropout, 1, Local(blk.local, features))))
       IN  Bn(blk, TAdd(o1, Dropout(blk.dropout, 2,
                            Attention(blk.attention, o1, o1, structure))))

\* StructuredTransformerEncoderBlock.forward
BlockForward(blk, features, structure) ==
  IF blk.pre_norm
  THEN LET normed == Bn(blk, features)
           out1 == TAdd(features,
                        Dropout(blk.dropout, 1,
                                Attention(blk.attention, normed, normed, structure)))
           out2 == TAdd(out1,
                        Dropout(blk.dropout, 2,
                                Local(blk.local, LocalBn(blk, out1))))
       IN  out2
  ELSE LET out1 == TAdd(features,
                        Dropout(blk.dropout, 1,
                                Attention(blk.attention, features, features, structure)))
           out2 == Bn(blk, out1)
           out3 == TAdd(out2,
                        Dropout(blk.dropout, 2, Local(blk.local, out2)))
           out4 == LocalBn(blk, out3)
       IN  out4

\* One call of a block on drawn arguments.
InitBlock ==
  /\ pc = "start"
  /\ args \in [block : Blocks, features : Features, structure : Structures]
  /\ out = <<>>
  /\ idx = 0
  /\ calls = <<>>

CallBlock ==
  /\ pc = "start"
  /\ out' = BlockForward(args.block, args.features, args.structure)
  /\ pc' = "done"
  /\ UNCHANGED <<args, idx, calls>>

NextBlock == CallBlock

SpecBlock == InitBlock /\ [][NextBlock]_vars


C1_Expected(blk, x, s) ==
  LET norm(t)  == IF blk.batch_norm THEN LayerNorm(t) ELSE t
      attn(t)  == Dropout(blk.dropout, 1, Attention(blk.attention, t, t, s))
      local(t) == Dropout(blk.dropout, 2, Local(blk.local, t))
  IN  IF blk.pre_norm
      THEN LET o1 == TAdd(x, attn(norm(x)))
           IN  TAdd(o1, local(norm(o1)))
      ELSE LET o1 == norm(TAdd(x, attn(x)))
           IN  norm(TAdd(o1, local(o1)))

C1_ZeroSublayers(blk) ==
  /\ blk.attention = [q |-> 0, k |-> 0]
  /\ blk.local.w = 0
  /\ ~blk.batch_norm

(***************************************************************************)
(* C1: when a block has run, its result is the attention sublayer followed *)
(* by the MLP sublayer, each sublayer's dropout-processed output added to  *)
(* the sublayer's un-normalised input; with pre_norm the normalisation is  *)
(* applied to the sublayer's input only, without it to the sum after each  *)
(* residual addition.  When both sublayers return zero and normalisation   *)
(* is the identity, the block returns its input.                           *)
(***************************************************************************)
C1_BlockResidual ==
  pc = "done" =>
    /\ out = C1_Expected(args.block, args.features, args.structure)
    /\ C1_ZeroSublayers(args.block) => out = args.features

C1_Witness ==
  /\ pc = "done"
  /\ ~args.block.pre_norm
  /\ args.block.batch_norm
  /\ args.block.attention = [q |-> 1, k |-> 1]
  /\ args.block.local.w = 1
  /\ args.block.dropout # <<>>
  /\ out # args.features

(***************************************************************************)
(* C10: a block built with batch_norm false returns the same result with   *)
(* pre_norm true and with pre_norm false, for the same features, structure *)
(* and dropout masks.                                                      *)
(***************************************************************************)
C10_PreNormIrrelevant ==
  (pc = "done" /\ ~args.block.batch_norm) =>
    out = BlockForward([args.block EXCEPT !.pre_norm = ~@],
                       args.features, args.structure)

C10_Witness ==
  /\ pc = "done"
  /\ ~args.block.batch_norm
  /\ args.block.pre_norm
  /\ args.block.attention = [q |-> 1, k |-> 1]
  /\ args.block.local.w = -1
  /\ args.block.dropout # <<>>
  /\ out # args.features

(***************************************************************************)
(* StructuredTransformerEncoder                                            *)
(***************************************************************************)
\* self.preprocessor = nn.Linear(in_size, size), with a diagonal weight
LinearWeights == [w : {1, 2}, b : {0, 1}]

Linear(w, x) ==
  [i \in DOMAIN x |-> [c \in DOMAIN x[i] |-> w.w * x[i][c] + w.b]]

\* the weights one block of a stack may have
StackWeights ==
  [attention : {[q |-> 1, k |-> 0], [q |-> 0, k |-> 1]},
   local : {[w |-> 1, b |-> 0], [w |-> -1, b |-> 1]}]

\* __init__: `depth` blocks with the same hyperparameters and their own weights
EncoderBlocks(pre_norm, batch_norm, weights) ==
  [i \in DOMAIN weights |->
     [pre_norm |-> pre_norm, batch_norm |-> batch_norm,
      attention |-> weights[i].attention, local |-> weights[i].local,
      dropout |-> <<>>]]

Encoders ==
  UNION { { [preprocessor |-> l, blocks |-> EncoderBlocks(p, b, w)] :
              l \in LinearWeights, p \in BOOLEAN, b \in BOOLEAN,
              w \in [1..depth -> StackWeights] } :
          depth \in 0..MaxDepth }

RECURSIVE ApplyBlocks(_, _, _, _)
ApplyBlocks(blocks, i, x, structure) ==
  IF i > Len(blocks) THEN x
  ELSE ApplyBlocks(blocks, i + 1, BlockForward(blocks[i], x, structure), structure)

\* StructuredTransformerEncoder.forward as a function
EncoderForward(encoder, features, structure) ==
  ApplyBlocks(encoder.blocks, 1, Linear(encoder.preprocessor, features), structure)

InitEncoder ==
  /\ pc = "start"
  /\ args \in [encoder : Encoders, features : Features, structure : Structures]
  /\ out = <<>>
  /\ idx = 0
  /\ calls = <<>>

\* out = self.preprocessor(features)
EncoderPreprocess ==
  /\ pc = "start"
  /\ out' = Linear(args.encoder.preprocessor, args.features)
  /\ calls' = Append(calls, [module |-> "preprocessor", block |-> 0,
                             input |-> args.features,
                             structure |-> args.structure,
                             output |-> out'])
  /\ idx' = 1
  /\ pc' = "blocks"
  /\ UNCHANGED args

\* a loop body that hands every block the projected features
EncoderBlockStale ==
  /\ pc = "blocks"
  /\ idx <= Len(args.encoder.blocks)
  /\ out' = BlockForward(args.encoder.blocks[idx], calls[1].output, args.structure)
  /\ calls' = Append(calls, [module |-> "block", block |-> idx,
                             input |-> calls[1].output,
                             structure |-> args.structure,
                             output |-> out'])
  /\ idx' = idx + 1
  /\ UNCHANGED <<pc, args>>

\* for block in self.blocks: out = block(out, structure)
EncoderBlock ==
  /\ pc = "blocks"
  /\ idx <= Len(args.encoder.blocks)
  /\ out' = BlockForward(args.encoder.blocks[idx], out, args.structure)
  /\ calls' = Append(calls, [module |-> "block", block |-> idx,
                             input |-> out,
                             structure |-> args.structure,
                             output |-> out'])
  /\ idx' = idx + 1
  /\ UNCHANGED <<pc, args>>

\* return out
EncoderReturn ==
  /\ pc = "blocks"
  /\ idx > Len(args.encoder.blocks)
  /\ pc' = "done"
  /\ UNCHANGED <<args, out, idx, calls>>

NextEncoder == EncoderPreprocess \/ EncoderBlock \/ EncoderReturn

SpecEncoder == InitEncoder /\ [][NextEncoder]_vars

(***************************************************************************)
(* C2: when the encoder returns, it has applied the input projection once, *)
(* first, and then its `depth` blocks in construction order, each on the   *)
(* previous output and on the caller's structure; with depth 0 the result  *)
(* is the projection of the input.                                         *)
(***************************************************************************)
C2_ProjectionThenBlocks ==
  pc = "done" =>
    LET depth == Len(args.encoder.blocks)
    IN  /\ Len(calls) = depth + 1
        /\ calls[1].module = "preprocessor"
        /\ calls[1].input = args.features
        /\ calls[1].output = Linear(args.encoder.preprocessor, args.features)
        /\ \A i \in 1..depth :
             /\ calls[i + 1].module = "block"
             /\ calls[i + 1].block = i
             /\ calls[i + 1].input = calls[i].output
             /\ calls[i + 1].structure = args.structure
             /\ calls[i + 1].output =
                  BlockForward(args.encoder.blocks[i], calls[i].output,
                               args.structure)
        /\ out = calls[depth + 1].output
        /\ out = EncoderForward(args.encoder, args.features, args.structure)
        /\ depth = 0 => out = Linear(args.encoder.preprocessor, args.features)

C2_Witness ==
  /\ pc = "done"
  /\ Len(args.encoder.blocks) = 2
  /\ args.encoder.blocks[1] # args.encoder.blocks[2]
  /\ Len(calls) = 3
  /\ calls[3].input # calls[2].input
  /\ out # calls[2].output


(***************************************************************************)
(* ProteinTransformer                                                      *)
(*                                                                         *)
(* Angles are multiples of pi/2 (0 is 0 rad), so that sin and cos are      *)
(* exact.  A tensor of shape (N, 3) is a sequence of N rows of 3 angles.   *)
(***************************************************************************)
AngleRows == {<<0, 0, 0>>, <<1, 2, 3>>, <<2, 1, 1>>}

AnglesOf(n) == [1..n -> AngleRows]

\* torch.sin, torch.cos of k * pi/2
Sin(k) == CASE k % 4 = 0 -> 0 [] k % 4 = 1 -> 1 [] k % 4 = 2 -> 0 [] OTHER -> -1

Cos(k) == CASE k % 4 = 0 -> 1 [] k % 4 = 1 -> 0 [] k % 4 = 2 -> -1 [] OTHER -> 0

\* tensor.roll(1, dims=0): row i of the result is row i - 1, row 0 is the last row
Roll(t) == [i \in DOMAIN t |-> t[((i - 2) % Len(t)) + 1]]

\* a history that keeps the wrapped-around last row at position 0
PreviousAnglesWrapped(mem) ==
  [mem EXCEPT !.previous_angles = Roll(mem.angles)]

(***************************************************************************)
(* previous_angles = angles.roll(1, dims=0); previous_angles[0] = 0        *)
(* roll allocates its result: the assignment writes to the copy and the    *)
(* caller's tensor keeps its rows.                                         *)
(***************************************************************************)
PreviousAngles(mem) ==
  LET rolled == [mem EXCEPT !.previous_angles = Roll(mem.angles)]
  IN  [rolled EXCEPT !.previous_angles[1] = <<0, 0, 0>>]

\* afeat = torch.cat((asin, acos), dim=1)
AngleFeatures(previous_angles) ==
  [i \in DOMAIN previous_angles |->
     <<Sin(previous_angles[i][1]), Sin(previous_angles[i][2]),
       Sin(previous_angles[i][3]),
       Cos(previous_angles[i][1]), Cos(previous_angles[i][2]),
       Cos(previous_angles[i][3])>>]

\* self.preprocess = nn.Linear(6, size), size = 2, with 0/1 weights
Preprocess(afeat) ==
  [i \in DOMAIN afeat |->
     <<afeat[i][1] + afeat[i][2] + afeat[i][3],
       afeat[i][4] + afeat[i][5] + afeat[i][6]>>]

(***************************************************************************)
(* The output heads: linear maps from an encoding row to n_out values.     *)
(* The bias grows with the output index, so that the outputs of one row    *)
(* differ and a permutation of them shows.                                 *)
(***************************************************************************)
HeadWeights == {[w |-> 1, v |-> 0, b |-> 1], [w |-> 0, v |-> 1, b |-> 2]}

LinearHead(w, n_out, encoding) ==
  [i \in DOMAIN encoding |->
     [k \in 1..n_out |-> w.w * encoding[i][1] + w.v * encoding[i][2] + w.b * k]]

\* a view that reads the flat row as (mix, 3) instead of (3, mix)
ViewTransposed(flat, mix) ==
  [i \in DOMAIN flat |->
     [a \in 1..3 |-> [c \in 1..mix |-> flat[i][(c - 1) * 3 + a]]]]

\* tensor.view(N, 3, mix) of a tensor of shape (N, 3 * mix)
View(flat, mix) ==
  [i \in DOMAIN flat |->
     [a \in 1..3 |-> [c \in 1..mix |-> flat[i][(a - 1) * mix + c]]]]

\* torch.sigmoid, in thousandths, rounded
Sigmoid(h) ==
  LET half == CASE h = 0 -> 500 [] h = 1 -> 731 [] h = 2 -> 881 [] h = 3 -> 953
                [] h = 4 -> 982 [] h = 5 -> 993 [] h = 6 -> 998 [] h = 7 -> 999
                [] OTHER -> 1000
  IN  IF h >= 0 THEN half
      ELSE 1000 - (CASE -h = 1 -> 731 [] -h = 2 -> 881 [] -h = 3 -> 953
                     [] -h = 4 -> 982 [] -h = 5 -> 993 [] -h = 6 -> 998
                     [] -h = 7 -> 999 [] OTHER -> 1000)

\* 0.1 + 1000 * sigmoid(h), in tenths
Concentration(h) == 1 + 10 * Sigmoid(h)

\* softmax(dim=-1): entry k is exp(row[k]) / sum of exp over the row
Softmax(logits) ==
  [i \in DOMAIN logits |->
     [k \in DOMAIN logits[i] |-> [exp |-> logits[i][k], over |-> logits[i]]]]

\* tensor[:, :, idx]
Component(t, c) == [i \in DOMAIN t |-> [a \in 1..3 |-> t[i][a][c]]]

Models ==
  [mix : 1..MaxMix,
   encoder : {e \in Encoders : Len(e.blocks) <= 1 /\ e.preprocessor.b = 0
                               /\ \A i \in DOMAIN e.blocks :
                                    e.blocks[i].batch_norm /\ e.blocks[i].pre_norm
                                    /\ e.blocks[i].local.w = 1},
   mean : HeadWeights,
   log_concentration : {[w |-> 0, v |-> 1, b |-> -1]},
   weights : {[w |-> 1, v |-> 1, b |-> 0]},
   factor : {[w |-> 1, v |-> 0, b |-> 1]}]

(***************************************************************************)
(* ProteinTransformer.forward.  relative_structure is built from           *)
(* `structure` and `tertiary` by code outside the sources; the encoder is  *)
(* handed the neighbourhoods of `structure`.  The result records the       *)
(* returned value, the angle-history features and the encoding, and the    *)
(* caller's angles tensor as the call leaves it.                           *)
(***************************************************************************)
TransformerForward(model, angles, structure) ==
  LET mem == PreviousAngles([angles |-> angles, previous_angles |-> <<>>])
      afeat == AngleFeatures(mem.previous_angles)
      features == Preprocess(afeat)
      encoding == EncoderForward(model.encoder, features, structure)
      mean0 == View(LinearHead(model.mean, 3 * model.mix, encoding), model.mix)
      factor == LinearHead(model.factor, 3, encoding)
      mean ==
        [i \in DOMAIN mean0 |->
           [a \in 1..3 |->
              [c \in 1..model.mix |->
                 CASE a = 1 -> mean0[i][a][c]
                   [] a = 2 -> mean0[i][a][c] + factor[i][1] * mem.angles[i][1]
                   [] a = 3 -> mean0[i][a][c] + factor[i][2] * mem.angles[i][1]
                                              + factor[i][3] * mem.angles[i][2]]]]
      logc == View(LinearHead(model.log_concentration, 3 * model.mix, encoding),
                   model.mix)
      concentration ==
        [i \in DOMAIN logc |->
           [a \in 1..3 |-> [c \in 1..model.mix |-> Concentration(logc[i][a][c])]]]
      weights == Softmax(LinearHead(model.weights, model.mix, encoding))
      parameters ==
        [c \in 1..model.mix |-> <<Component(mean, c), Component(concentration, c)>>]
  IN  [ret |-> << <<weights, parameters>> >>,
       afeat |-> afeat,
       encoding |-> encoding,
       angles |-> mem.angles]

InitTransformer ==
  /\ pc = "start"
  /\ \E n \in 1..MaxResidues :
       args \in [model : Models, angles : AnglesOf(n),
                 structure : {[i \in 1..n |-> {j \in 1..n : j < i}],
                              [i \in 1..n |-> 1..n]}]
  /\ out = <<>>
  /\ idx = 0
  /\ calls = <<>>

CallTransformer ==
  /\ pc = "start"
  /\ out' = TransformerForward(args.model, args.angles, args.structure)
  /\ pc' = "done"
  /\ UNCHANGED <<args, idx, calls>>

NextTransformer == CallTransformer

SpecTransformer == InitTransformer /\ [][NextTransformer]_vars

C3_MeanShift(a, factor, angles) ==
  CASE a = 1 -> 0
    [] a = 2 -> factor[1] * angles[1]
    [] a = 3 -> factor[2] * angles[1] + factor[3] * angles[2]

C4_SinCos(row) ==
  <<Sin(row[1]), Sin(row[2]), Sin(row[3]), Cos(row[1]), Cos(row[2]), Cos(row[3])>>

(***************************************************************************)
(* C4: the angle-history features at a position are the sines and cosines  *)
(* of the angles of the position before it, the first position has the     *)
(* all-zero history, the caller's angles are unmodified, and inputs that   *)
(* agree on the positions before i have the same features up to i.         *)
(***************************************************************************)
C4_AngleHistoryCausal ==
  pc = "done" =>
    LET n == Len(args.angles)
    IN  /\ out.angles = args.angles
        /\ Len(out.afeat) = n
        /\ out.afeat[1] = <<0, 0, 0, 1, 1, 1>>
        /\ \A i \in 2..n : out.afeat[i] = C4_SinCos(args.angles[i - 1])
        /\ \A other \in AnglesOf(n) : \A i \in 1..n :
             (\A j \in 1..(i - 1) : other[j] = args.angles[j]) =>
               \A k \in 1..i :
                 TransformerForward(args.model, other, args.structure).afeat[k]
                   = out.afeat[k]

C4_Witness ==
  /\ pc = "done"
  /\ Len(args.angles) = 3
  /\ args.angles[3] = <<1, 2, 3>>
  /\ args.angles[1] = <<2, 1, 1>>
  /\ out.afeat[1] = <<0, 0, 0, 1, 1, 1>>
  /\ out.afeat[2] = <<0, 1, 1, -1, 0, 0>>
  /\ out.angles[1] = <<2, 1, 1>>

(***************************************************************************)
(* Geometry utilities (protsupport/utils/geometry.py)                      *)
(*                                                                         *)
(* A floating-point number is a fraction <<n, d>> in lowest terms, d > 0,  *)
(* or one of the IEEE specials: <<0, 0>> is NaN, <<1, 0>> and <<-1, 0>>    *)
(* are +inf and -inf.  Arithmetic is exact on fractions and follows IEEE   *)
(* 754 on the specials (0/0 = NaN, x/0 = +-inf, NaN propagates).  Inputs   *)
(* are chosen so that every square root taken is that of a perfect square. *)
(***************************************************************************)
Abs(n) == IF n < 0 THEN -n ELSE n

RECURSIVE GCD(_, _)
GCD(a, b) == IF b = 0 THEN a ELSE GCD(b, a % b)

NaN == <<0, 0>>

Inf(s) == <<s, 0>>

Fr(n, d) ==
  IF d = 0 THEN <<Sgn(n), 0>>
  ELSE LET g == GCD(Abs(n), Abs(d))
       IN  <<Sgn(d) * (n \div g), Abs(d) \div g>>

F(n) == <<n, 1>>

IsNaN(a) == a = NaN

IsFinite(a) == a[2] # 0

FNeg(a) == <<-a[1], a[2]>>

FAdd(a, b) ==
  IF IsNaN(a) \/ IsNaN(b) THEN NaN
  ELSE IF ~IsFinite(a) THEN (IF ~IsFinite(b) /\ b # a THEN NaN ELSE a)
  ELSE IF ~IsFinite(b) THEN b
  ELSE LET g == GCD(a[2], b[2])
       IN  Fr(a[1] * (b[2] \div g) + b[1] * (a[2] \div g), (a[2] \div g) * b[2])

FSub(a, b) == FAdd(a, FNeg(b))

FMul(a, b) ==
  IF IsNaN(a) \/ IsNaN(b) THEN NaN
  ELSE IF ~IsFinite(a) \/ ~IsFinite(b)
       THEN (IF a[1] = 0 \/ b[1] = 0 THEN NaN ELSE Inf(Sgn(a[1]) * Sgn(b[1])))
  ELSE IF a[1] = 0 \/ b[1] = 0 THEN F(0)
  ELSE LET g1 == GCD(Abs(a[1]), b[2])
           g2 == GCD(Abs(b[1]), a[2])
       IN  <<(a[1] \div g1) * (b[1] \div g2), (a[2] \div g2) * (b[2] \div g1)>>

FDiv(a, b) ==
  IF IsNaN(a) \/ IsNaN(b) THEN NaN
  ELSE IF ~IsFinite(b) THEN (IF IsFinite(a) THEN F(0) ELSE NaN)
  ELSE IF b[1] = 0 THEN (IF a[1] = 0 THEN NaN ELSE Inf(Sgn(a[1])))
  ELSE FMul(a, <<Sgn(b[1]) * b[2], Abs(b[1])>>)

ISqrt(n) == CHOOSE r \in 0..n : r * r = n

\* np.sqrt / torch.sqrt
FSqrt(a) ==
  IF IsNaN(a) \/ a[1] < 0 THEN NaN
  ELSE IF ~IsFinite(a) THEN a
  ELSE <<ISqrt(a[1]), ISqrt(a[2])>>

\* the regulariser 1e-6 of the torch code is 1 / EpsInverse
EpsInverse == 1000000

Eps == Fr(1, EpsInverse)

\* vectors are sequences of 3 numbers, matrices sequences of 3 rows
Vec(a, b, c) == <<F(a), F(b), F(c)>>

VSub(u, v) == [r \in 1..3 |-> FSub(u[r], v[r])]

VScaleDiv(u, d) == [r \in 1..3 |-> FDiv(u[r], d)]

\* np.linalg.norm / torch.norm of one vector
VNorm(u) ==
  FSqrt(FAdd(FMul(u[1], u[1]), FAdd(FMul(u[2], u[2]), FMul(u[3], u[3]))))

Dot3(a1, b1, a2, b2, a3, b3) ==
  FAdd(FMul(a1, b1), FAdd(FMul(a2, b2), FMul(a3, b3)))

\* M @ v, v a column
MatVec(m, v) == [r \in 1..3 |-> Dot3(m[r][1], v[1], m[r][2], v[2], m[r][3], v[3])]

\* v @ M, v a row
VecMat(v, m) == [c \in 1..3 |-> Dot3(v[1], m[1][c], v[2], m[2][c], v[3], m[3][c])]

\* A @ B
MatMul(a, b) ==
  [r \in 1..3 |->
     [c \in 1..3 |-> Dot3(a[r][1], b[1][c], a[r][2], b[2][c], a[r][3], b[3][c])]]

\* M.T
Transpose(m) == [r \in 1..3 |-> [c \in 1..3 |-> m[c][r]]]

Mat(r1, r2, r3) == <<Vec(r1[1], r1[2], r1[3]), Vec(r2[1], r2[2], r2[3]),
                     Vec(r3[1], r3[2], r3[3])>>

Identity == Mat(<<1, 0, 0>>, <<0, 1, 0>>, <<0, 0, 1>>)

\* rotations by 180 degrees about the x, y and z axes (trace -1)
HalfTurns ==
  { Mat(<<1, 0, 0>>, <<0, -1, 0>>, <<0, 0, -1>>),
    Mat(<<-1, 0, 0>>, <<0, 1, 0>>, <<0, 0, -1>>),
    Mat(<<-1, 0, 0>>, <<0, -1, 0>>, <<0, 0, 1>>) }

\* rotations by 120 degrees about a body diagonal (trace 0)
ThirdTurn == Mat(<<0, 0, 1>>, <<1, 0, 0>>, <<0, 1, 0>>)

\* the rotation group of the tetrahedron: traces 3, 0 and -1
Rotations ==
  LET gen == {Identity} \cup HalfTurns
      c1  == {MatMul(h, ThirdTurn) : h \in gen}
      c2  == {MatMul(h, Transpose(ThirdTurn)) : h \in gen}
  IN  gen \cup c1 \cup c2

\* a rotation about z by the angle with cosine 7/25 and sine 24/25
RationalTurn ==
  << <<Fr(7, 25), Fr(-24, 25), F(0)>>,
     <<Fr(24, 25), Fr(7, 25), F(0)>>,
     <<F(0), F(0), F(1)>> >>

\* the numpy branch of matrix_to_quaternion, on one matrix
NpMatrixToQuaternion(matrix) ==
  LET w == FDiv(FSqrt(FAdd(F(1), FAdd(matrix[1][1],
                                  FAdd(matrix[2][2], matrix[3][3])))), F(2))
      w4 == FMul(F(4), w)
      x == FDiv(FSub(matrix[3][2], matrix[2][3]), w4)
      y == FDiv(FSub(matrix[1][3], matrix[3][1]), w4)
      z == FDiv(FSub(matrix[2][1], matrix[1][2]), w4)
  IN  <<w, x, y, z>>

\* the torch branch of matrix_to_quaternion, on a batch of matrices
TorchMatrixToQuaternion(matrix) ==
  [i \in DOMAIN matrix |->
     LET m == matrix[i]
         w == FDiv(FSqrt(FAdd(F(1), FAdd(m[1][1], FAdd(m[2][2], m[3][3])))), F(2))
         w4 == FMul(F(4), w)
         x == FDiv(FSub(m[3][2], m[2][3]), FAdd(w4, Eps))
         y == FDiv(FSub(m[1][3], m[3][1]), FAdd(w4, Eps))
         z == FDiv(FSub(m[2][1], m[1][2]), FAdd(w4, Eps))
     IN  <<w, x, y, z>>]

\* matrix_to_quaternion: isinstance(matrix, torch.Tensor) selects the branch
matrix_to_quaternion(arg) ==
  IF arg.tensor THEN TorchMatrixToQuaternion(arg.matrix)
  ELSE NpMatrixToQuaternion(arg.matrix)

QuaternionInputs == Rotations \cup {RationalTurn}

InitQuaternion ==
  /\ pc = "start"
  /\ \/ args \in [tensor : {FALSE}, matrix : QuaternionInputs]
     \/ \E n \in 1..MaxBatch :
          args \in [tensor : {TRUE}, matrix : [1..n -> QuaternionInputs]]
  /\ out = <<>>
  /\ idx = 0
  /\ calls = <<>>

CallMatrixToQuaternion ==
  /\ pc = "start"
  /\ out' = matrix_to_quaternion(args)
  /\ pc' = "done"
  /\ UNCHANGED <<args, idx, calls>>

NextQuaternion == CallMatrixToQuaternion

SpecQuaternion == InitQuaternion /\ [][NextQuaternion]_vars

\* a finite number in hundredths, rounded down
Centi(a) == (a[1] * 100) \div a[2]

C6_UnitQuaternion(q) ==
  /\ \A k \in 1..4 : IsFinite(q[k])
  /\ LET n2 == Centi(q[1]) * Centi(q[1]) + Centi(q[2]) * Centi(q[2])
               + Centi(q[3]) * Centi(q[3]) + Centi(q[4]) * Centi(q[4])
     IN  Abs(n2 - 10000) <= 500

(***************************************************************************)
(* C6: matrix_to_quaternion turns every proper rotation matrix into a      *)
(* quaternion with finite components and unit norm (here: within 5% of 1,  *)
(* to allow for the regulariser), the identity into (1, 0, 0, 0), in both  *)
(* branches, rotations by 180 degrees included.                            *)
(***************************************************************************)
C6_FiniteUnitQuaternion ==
  pc = "done" =>
    IF args.tensor
    THEN \A i \in DOMAIN out :
           /\ C6_UnitQuaternion(out[i])
           /\ args.matrix[i] = Identity => out[i] = <<F(1), F(0), F(0), F(0)>>
    ELSE /\ C6_UnitQuaternion(out)
         /\ args.matrix = Identity => out = <<F(1), F(0), F(0), F(0)>>

(***************************************************************************)
(* relative_orientation and its three implementations.                     *)
(*                                                                         *)
(* The numpy implementation takes x, y of shape (3, N) and one frame x_o,  *)
(* y_o of shape (3, 3); the torch batch implementation x, y of shape       *)
(* (N, 3) and frames of shape (N, 3, 3); the torch neighbourhood           *)
(* implementation one x of shape (3,) with its frame and y of shape        *)
(* (K, 3) with frames of shape (K, 3, 3).                                  *)
(***************************************************************************)
\* points with pairwise distances 0, 3, 4 and 5
Points == {Vec(0, 0, 0), Vec(3, 0, 0), Vec(0, 4, 0), Vec(3, 4, 0)}

Frames ==
  {Identity, ThirdTurn, Transpose(ThirdTurn),
   Mat(<<1, 0, 0>>, <<0, -1, 0>>, <<0, 0, -1>>)}

ZeroVec == Vec(0, 0, 0)

\* column k of an array of shape (3, N)
Column(a, k) == <<a[1][k], a[2][k], a[3][k]>>

\* the numpy implementation without the reset of zero-distance columns
_np_relative_orientation_unmasked(x, y, x_o, y_o) ==
  LET n == Len(y[1])
      offset == [r \in 1..3 |-> [k \in 1..n |-> FSub(y[r][k], x[r][k])]]
      distance == [k \in 1..n |-> VNorm(Column(offset, k))]
      unit == [r \in 1..3 |-> [k \in 1..n |-> FDiv(offset[r][k], distance[k])]]
      direction ==
        [r \in 1..3 |-> [k \in 1..n |-> MatVec(Transpose(x_o), Column(unit, k))[r]]]
      rotation == NpMatrixToQuaternion(MatMul(Transpose(x_o), y_o))
  IN  <<distance, direction, rotation>>

\* _np_relative_orientation
_np_relative_orientation(x, y, x_o, y_o) ==
  LET n == Len(y[1])
      offset == [r \in 1..3 |-> [k \in 1..n |-> FSub(y[r][k], x[r][k])]]
      distance == [k \in 1..n |-> VNorm(Column(offset, k))]
      unit == [r \in 1..3 |-> [k \in 1..n |-> FDiv(offset[r][k], distance[k])]]
      direction0 ==
        [r \in 1..3 |-> [k \in 1..n |-> MatVec(Transpose(x_o), Column(unit, k))[r]]]
      direction ==
        [r \in 1..3 |->
           [k \in 1..n |-> IF distance[k] = F(0) THEN F(0) ELSE direction0[r][k]]]
      rotation == NpMatrixToQuaternion(MatMul(Transpose(x_o), y_o))
  IN  <<distance, direction, rotation>>

\* _torch_neighbourhood_relative_orientation
_torch_neighbourhood_relative_orientation(x, y, x_o, y_o) ==
  LET offset == [k \in DOMAIN y |-> VSub(y[k], x)]
      distance == [k \in DOMAIN y |-> <<VNorm(offset[k])>>]
      direction0 ==
        [k \in DOMAIN y |->
           VecMat(VScaleDiv(offset[k], FAdd(distance[k][1], Eps)), x_o)]
      direction ==
        [k \in DOMAIN y |->
           IF distance[k][1] = F(0) THEN ZeroVec ELSE direction0[k]]
      rotation == TorchMatrixToQuaternion([k \in DOMAIN y |-> MatMul(x_o, y_o[k])])
  IN  <<distance, direction, rotation>>

\* tensor.squeeze() of a tensor of shape (N, 3, 1)
Squeeze(t) ==
  LET flat == [k \in DOMAIN t |-> [r \in 1..3 |-> t[k][r][1]]]
  IN  IF Len(t) = 1 THEN flat[1] ELSE flat

\* _torch_batch_relative_orientation
_torch_batch_relative_orientation(x, y, x_o, y_o) ==
  LET offset == [k \in DOMAIN y |-> VSub(y[k], x[k])]
      distance == [k \in DOMAIN y |-> <<VNorm(offset[k])>>]
      direction0 ==
        [k \in DOMAIN y |->
           LET v == MatVec(x_o[k], VScaleDiv(offset[k], FAdd(distance[k][1], Eps)))
           IN  [r \in 1..3 |-> <<v[r]>>]]
      direction ==
        [k \in DOMAIN y |->
           IF distance[k][1] = F(0) THEN [r \in 1..3 |-> <<F(0)>>]
           ELSE direction0[k]]
      rotation ==
        TorchMatrixToQuaternion([k \in DOMAIN y |-> MatMul(x_o[k], y_o[k])])
  IN  <<distance, Squeeze(direction), rotation>>

\* relative_orientation: the dispatch on the type and the dimensions of x, y
relative_orientation(a) ==
  IF a.tensor
  THEN IF a.x_dim # a.y_dim
       THEN _torch_neighbourhood_relative_orientation(a.x, a.y, a.x_o, a.y_o)
       ELSE _torch_batch_relative_orientation(a.x, a.y, a.x_o, a.y_o)
  ELSE _np_relative_orientation(a.x, a.y, a.x_o, a.y_o)

(***************************************************************************)
(* The arguments of a call: one oriented point (x, x_o) and the oriented   *)
(* points (ys[k], y_o), in the shapes the selected implementation takes.   *)
(***************************************************************************)
Columns(points) == [r \in 1..3 |-> [k \in DOMAIN points |-> points[k][r]]]

Repeat(v, n) == [k \in 1..n |-> v]

NpArguments(x, x_o, ys, y_o) ==
  [tensor |-> FALSE, x_dim |-> 2, y_dim |-> 2,
   x |-> Columns(Repeat(x, Len(ys))), y |-> Columns(ys), x_o |-> x_o, y_o |-> y_o]

BatchArguments(x, x_o, ys, y_o) ==
  [tensor |-> TRUE, x_dim |-> 2, y_dim |-> 2,
   x |-> Repeat(x, Len(ys)), y |-> ys,
   x_o |-> Repeat(x_o, Len(ys)), y_o |-> Repeat(y_o, Len(ys))]

NeighbourhoodArguments(x, x_o, ys, y_o) ==
  [tensor |-> TRUE, x_dim |-> 1, y_dim |-> 2,
   x |-> x, y |-> ys, x_o |-> x_o, y_o |-> Repeat(y_o, Len(ys))]

InitOrientation ==
  /\ pc = "start"
  /\ \E x \in Points, x_o \in Frames, y_o \in Frames, n \in 1..MaxPairs :
       \E ys \in [1..n -> Points] :
         \/ args = [call |-> NpArguments(x, x_o, ys, y_o), impl |-> "np",
                    x |-> x, x_o |-> x_o, ys |-> ys, y_o |-> y_o]
         \/ args = [call |-> BatchArguments(x, x_o, ys, y_o), impl |-> "batch",
                    x |-> x, x_o |-> x_o, ys |-> ys, y_o |-> y_o]
         \/ args = [call |-> NeighbourhoodArguments(x, x_o, ys, y_o),
                    impl |-> "neighbourhood",
                    x |-> x, x_o |-> x_o, ys |-> ys, y_o |-> y_o]
  /\ out = <<>>
  /\ idx = 0
  /\ calls = <<>>

CallRelativeOrientation ==
  /\ pc = "start"
  /\ out' = relative_orientation(args.call)
  /\ pc' = "done"
  /\ UNCHANGED <<args, idx, calls>>

NextOrientation == CallRelativeOrientation

SpecOrientation == InitOrientation /\ [][NextOrientation]_vars

\* the distance, direction and rotation a result holds for pair k of n
DistanceAt(impl, res, k) == IF impl = "np" THEN res[1][k] ELSE res[1][k][1]

DirectionAt(impl, res, k, n) ==
  IF impl = "np" THEN Column(res[2], k)
  ELSE IF impl = "batch" /\ n = 1 THEN res[2]
  ELSE res[2][k]

RotationAt(impl, res, k) == IF impl = "np" THEN res[3] ELSE res[3][k]

C5_Computed(impl, x, x_o, y) ==
  LET offset == VSub(y, x)
      d == VNorm(offset)
  IN  CASE impl = "np" -> MatVec(Transpose(x_o), VScaleDiv(offset, d))
        [] impl = "batch" -> MatVec(x_o, VScaleDiv(offset, FAdd(d, Eps)))
        [] OTHER -> VecMat(VScaleDiv(offset, FAdd(d, Eps)), x_o)

(***************************************************************************)
(* C5: relative_orientation returns a triple; for every pair with y = x    *)
(* the distance is 0 and the direction is the zero vector, with no NaN,    *)
(* and the directions of the other pairs of the call are the normalised    *)
(* offsets in the frame of x, as the implementation computes them.         *)
(***************************************************************************)
C5_ZeroOffsetDirection ==
  pc = "done" =>
    /\ Len(out) = 3
    /\ \A k \in DOMAIN args.ys :
         LET dir == DirectionAt(args.impl, out, k, Len(args.ys))
         IN  IF args.ys[k] = args.x
             THEN /\ DistanceAt(args.impl, out, k) = F(0)
                  /\ dir = ZeroVec
             ELSE /\ dir = C5_Computed(args.impl, args.x, args.x_o, args.ys[k])
                  /\ \A r \in 1..3 : IsFinite(dir[r])

C5_Witness ==
  /\ pc = "done"
  /\ args.impl = "np"
  /\ Len(args.ys) = 2
  /\ args.ys[1] = args.x
  /\ args.ys[2] # args.x
  /\ args.x_o = ThirdTurn
  /\ Column(out[2], 1) = ZeroVec
  /\ Column(out[2], 2) # ZeroVec

\* equal up to a hundredth, to allow for the regulariser
C9_Close(a, b) ==
  IF IsFinite(a) /\ IsFinite(b) THEN Abs(Centi(a) - Centi(b)) <= 1 ELSE a = b

C9_AllClose(u, v) == \A r \in DOMAIN u : C9_Close(u[r], v[r])

(***************************************************************************)
(* C9: for the same oriented points the three implementations return the   *)
(* same direction and the same rotation.                                   *)
(***************************************************************************)
C9_SameInAllImplementations ==
  pc = "done" =>
    LET n == Len(args.ys)
        np == _np_relative_orientation(
                NpArguments(args.x, args.x_o, args.ys, args.y_o).x,
                NpArguments(args.x, args.x_o, args.ys, args.y_o).y,
                args.x_o, args.y_o)
        batch == relative_orientation(
                   BatchArguments(args.x, args.x_o, args.ys, args.y_o))
        neighbourhood == relative_orientation(
                   NeighbourhoodArguments(args.x, args.x_o, args.ys, args.y_o))
    IN  \A k \in 1..n :
          /\ C9_AllClose(DirectionAt(args.impl, out, k, n),
                         DirectionAt("np", np, k, n))
          /\ C9_AllClose(DirectionAt(args.impl, out, k, n),
                         DirectionAt("batch", batch, k, n))
          /\ C9_AllClose(DirectionAt(args.impl, out, k, n),
                         DirectionAt("neighbourhood", neighbourhood, k, n))
          /\ C9_AllClose(RotationAt(args.impl, out, k), RotationAt("np", np, k))
          /\ C9_AllClose(RotationAt(args.impl, out, k),
                         RotationAt("batch", batch, k))
          /\ C9_AllClose(RotationAt(args.impl, out, k),
                         RotationAt("neighbourhood", neighbourhood, k))

(***************************************************************************)
(* orientation(positions), positions of shape (3, N).                      *)
(*                                                                         *)
(* An array of shape (R, N) is a sequence of R rows.  What matters of      *)
(* orientation is which frame lands where, so an entry of the result       *)
(* names the value it holds: <<0, c>> is the constant c, and               *)
(* <<f, r>> \o p \o q [\o s] is coordinate r of the vector f computed from *)
(* the positions p, q (and s): f = 1 the unit offset u, 2 the vector b,    *)
(* 3 the normal n, 4 the cross product b x n.                              *)
(***************************************************************************)
PositionPoints == {<<0, 0, 0>>, <<1, 0, 0>>, <<1, 2, 0>>}

PositionArrays(n) == {Columns(ps) : ps \in [1..n -> PositionPoints]}

Width(a) == Len(a[1])

\* a[:, 1:] and a[:, :-1]
DropFirst(a) == [r \in DOMAIN a |-> SubSeq(a[r], 2, Width(a))]

DropLast(a) == [r \in DOMAIN a |-> SubSeq(a[r], 1, Width(a) - 1)]

\* u = positions[:, 1:] - positions[:, :-1], normalised
UnitOffsets(positions) ==
  LET hi == DropFirst(positions)
      lo == DropLast(positions)
  IN  [r \in 1..3 |->
         [k \in 1..Width(hi) |-> <<1, r>> \o Column(lo, k) \o Column(hi, k)]]

\* the positions two neighbouring unit offsets are computed from
Triple(lo, hi, k) == SubSeq(lo[1][k], 3, 8) \o SubSeq(hi[1][k], 6, 8)

\* b = u[:, :-1] - u[:, 1:], normalised
Bisectors(u) ==
  LET lo == DropLast(u)
      hi == DropFirst(u)
  IN  [r \in 1..3 |-> [k \in 1..Width(lo) |-> <<2, r>> \o Triple(lo, hi, k)]]

\* n = np.cross(u[:, :-1].T, u[:, 1:].T).T, normalised
Normals(u) ==
  LET lo == DropLast(u)
      hi == DropFirst(u)
  IN  [r \in 1..3 |-> [k \in 1..Width(lo) |-> <<3, r>> \o Triple(lo, hi, k)]]

\* bxn = np.cross(b.T, n.T).T
Binormals(b, n) ==
  [r \in 1..3 |-> [k \in 1..Width(b) |-> <<4, r>> \o SubSeq(b[1][k], 3, 11)]]

\* np.concatenate(arrays, axis=0) and (..., axis=1)
ConcatRows(a, b, c) == a \o b \o c

ConcatColumns(a, b, c) == [r \in DOMAIN b |-> a[r] \o b[r] \o c[r]]

\* array.reshape(3, 3, -1) of an array of shape (9, N)
Reshape33(a) == [i \in 1..3 |-> [j \in 1..3 |-> a[3 * (i - 1) + j]]]

\* b_edge, n_edge and bxn_edge stacked: shape (9, 1)
EdgeFrame ==
  << <<<<0, 1>>>>, <<<<0, 0>>>>, <<<<0, 0>>>>,
     <<<<0, 0>>>>, <<<<0, 1>>>>, <<<<0, 0>>>>,
     <<<<0, 0>>>>, <<<<0, 0>>>>, <<<<0, 1>>>> >>

\* orientation
orientation(positions) ==
  LET u == UnitOffsets(positions)
      b == Bisectors(u)
      n == Normals(u)
      bxn == Binormals(b, n)
      result == ConcatRows(b, n, bxn)
  IN  Reshape33(ConcatColumns(EdgeFrame, result, EdgeFrame))

InitFrames ==
  /\ pc = "start"
  /\ \E n \in 1..MaxPositions : args \in [positions : PositionArrays(n)]
  /\ out = <<>>
  /\ idx = 0
  /\ calls = <<>>

CallOrientation ==
  /\ pc = "start"
  /\ out' = orientation(args.positions)
  /\ pc' = "done"
  /\ UNCHANGED <<args, idx, calls>>

NextFrames == CallOrientation

SpecFrames == InitFrames /\ [][NextFrames]_vars

\* frame k of a result of shape (3, 3, N): the rows b, n and b x n
C7_Frame(res, k) == [i \in 1..3 |-> [j \in 1..3 |-> res[i][j][k]]]

C7_Edge == [i \in 1..3 |-> [j \in 1..3 |-> <<0, IF i = j THEN 1 ELSE 0>>]]

C7_Interior(positions, k) ==
  [i \in 1..3 |->
     [j \in 1..3 |->
        <<i + 1, j>> \o Column(positions, k - 1) \o Column(positions, k)
                     \o Column(positions, k + 1)]]

(***************************************************************************)
(* C7: for positions of shape (3, N) orientation returns shape (3, 3, N),  *)
(* one frame per position; the first and the last frame are the fixed edge *)
(* frame and the frames between them are the interior frames in position   *)
(* order.                                                                  *)
(***************************************************************************)
C7_OneFramePerPosition ==
  pc = "done" =>
    LET n == Width(args.positions)
    IN  /\ Len(out) = 3
        /\ \A i \in 1..3 : Len(out[i]) = 3 /\ \A j \in 1..3 : Len(out[i][j]) = n
        /\ C7_Frame(out, 1) = C7_Edge
        /\ C7_Frame(out, n) = C7_Edge
        /\ \A k \in 2..(n - 1) : C7_Frame(out, k) = C7_Interior(args.positions, k)

(***************************************************************************)
(* assign_psea and _assign_psea_aux.                                       *)
(*                                                                         *)
(* Distances are in tenths of an Angstrom.  Angles are in degrees: the     *)
(* code compares radians, a degree value d standing for d / 180 * pi, and  *)
(* the factor pi / 180 keeps the order.                                    *)
(***************************************************************************)
HelixAngle == <<89, 12>>

SheetAngle == <<124, 14>>

HelixDihedral == <<50, 20>>

SheetDihedral == <<-170, 45>>

HelixDistances == <<<<55, 5>>, <<53, 5>>, <<64, 6>>>>

SheetDistances == <<<<67, 6>>, <<99, 9>>, <<124, 11>>>>

\* _assign_psea_aux; distances[idx + 2] is entry idx + 3 of the sequence
_assign_psea_aux(distances, dihedral, angle, distance_spec, dihedral_spec, angle_spec) ==
  LET fits(i) == /\ distance_spec[i][1] - distance_spec[i][2] < distances[i + 2]
                 /\ distances[i + 2] < distance_spec[i][1] + distance_spec[i][2]
      good1 == fits(1) /\ fits(2) /\ fits(3)
      target == dihedral_spec[1]
      area == dihedral_spec[2]
      left == ((target - area) + 180) % 360
      right == ((target + area) + 180) % 360
      good2 == good1 /\ left < dihedral /\ dihedral < right
      good3 == good2 /\ left < dihedral /\ dihedral < right
  IN  good3

\* the classification of assign_psea, from the measured values
Classify(distances, dihedral, angle) ==
  IF _assign_psea_aux(distances, dihedral, angle,
                   HelixDistances, HelixDihedral, HelixAngle)
  THEN <<1, 0, 0>>
  ELSE IF _assign_psea_aux(distances, dihedral, angle,
                        SheetDistances, SheetDihedral, SheetAngle)
  THEN <<0, 1, 0>>
  ELSE <<0, 0, 1>>

(***************************************************************************)
(* assign_psea(positions), positions of shape (rows, N).  offsets has the  *)
(* rows of positions, and compute_dihedral_angle is called with the rows   *)
(* of offsets[:-1] unpacked, rows - 1 arguments for its 3 parameters: with *)
(* the 3 coordinate rows the call raises TypeError before anything is      *)
(* classified.                                                             *)
(***************************************************************************)
assign_psea(positions) ==
  LET arguments == positions.rows - 1
  IN  IF arguments # 3 THEN <<"TypeError">>
      ELSE Classify(positions.distances, positions.dihedral, positions.angle)

\* what a chain of five residues measures
Measurements ==
  [distances : {<<0, 38, d3, d4, d5>> :
                  d3 \in {55, 67, 40}, d4 \in {53, 99}, d5 \in {64, 124}},
   dihedral : {-170, -130, 0, 30, 50, 69, 150, 180},
   angle : {89, 124, 30}]

InitPsea ==
  /\ pc = "start"
  /\ \E m \in Measurements :
       \/ args = [op |-> "assign_psea", rows |-> 3, distances |-> m.distances,
                  dihedral |-> m.dihedral, angle |-> m.angle, spec |-> "none"]
       \/ \E spec \in {"helix", "sheet"} :
            args = [op |-> "_assign_psea_aux", rows |-> 3,
                    distances |-> m.distances, dihedral |-> m.dihedral,
                    angle |-> m.angle, spec |-> spec]
  /\ out = <<>>
  /\ idx = 0
  /\ calls = <<>>

CallAssignPsea ==
  /\ pc = "start"
  /\ args.op = "assign_psea"
  /\ out' = assign_psea(args)
  /\ pc' = "done"
  /\ UNCHANGED <<args, idx, calls>>

CallAssignPseaAux ==
  /\ pc = "start"
  /\ args.op = "_assign_psea_aux"
  /\ out' = IF args.spec = "helix"
            THEN <<_assign_psea_aux(args.distances, args.dihedral, args.angle,
                                 HelixDistances, HelixDihedral, HelixAngle)>>
            ELSE <<_assign_psea_aux(args.distances, args.dihedral, args.angle,
                                 SheetDistances, SheetDihedral, SheetAngle)>>
  /\ pc' = "done"
  /\ UNCHANGED <<args, idx, calls>>

NextPsea == CallAssignPsea \/ CallAssignPseaAux

SpecPsea == InitPsea /\ [][NextPsea]_vars

\* v lies strictly inside the window (target - area, target + area)
C8_Inside(v, spec) == spec[1] - spec[2] < v /\ v < spec[1] + spec[2]

\* an angle in degrees lies inside the window, the circle taken into account
C8_InsideAngle(v, spec) ==
  \E turn \in {-360, 0, 360} : C8_Inside(v + turn, spec)

C8_Fits(m, distance_spec, dihedral_spec, angle_spec) ==
  /\ \A i \in 1..3 : C8_Inside(m.distances[i + 2], distance_spec[i])
  /\ C8_InsideAngle(m.dihedral, dihedral_spec)
  /\ C8_Inside(m.angle, angle_spec)

C8_Helix(m) == C8_Fits(m, HelixDistances, HelixDihedral, HelixAngle)

C8_Sheet(m) == C8_Fits(m, SheetDistances, SheetDihedral, SheetAngle)

(***************************************************************************)
(* C8: assign_psea returns [1, 0, 0] exactly when distances, dihedral and  *)
(* bond angle lie inside their helix windows, otherwise [0, 1, 0] exactly  *)
(* when they lie inside their sheet windows, otherwise [0, 0, 1]; and      *)
(* _assign_psea_aux accepts a specification exactly when all of them lie   *)
(* inside its windows, the bond angle included.                            *)
(***************************************************************************)
C8_HelixBeforeSheet ==
  pc = "done" =>
    IF args.op = "assign_psea"
    THEN out = IF C8_Helix(args) THEN <<1, 0, 0>>
               ELSE IF C8_Sheet(args) THEN <<0, 1, 0>>
               ELSE <<0, 0, 1>>
    ELSE out[1] = IF args.spec = "helix" THEN C8_Helix(args) ELSE C8_Sheet(args)

=============================================================================
